---- MODULE Spec2Model ----
(***************************************************************************)
(* etl::variant<TTypes...> (include/etl/private/variant_variadic.h) as a   *)
(* state machine.  Two variant objects live in slots of their own; each    *)
(* holds the three members of the class (data, operation, type_id).  The   *)
(* storage `data` is modelled by what it holds: whether an object is alive *)
(* in it, of which alternative, with which value.  Every member function   *)
(* is an operator from state to state that records the handler calls it    *)
(* makes, so that one action is one whole call.                            *)
(***************************************************************************)
EXTENDS Integers, Sequences, FiniteSets, TLC

\* ---------------------------------------------------------------- bounds
NumAlts   == 3      \* sizeof...(TTypes)
MaxVal    == 1      \* values of an alternative are 0..MaxVal
MaxVisit  == 2      \* number of variants passed to etl::visit
SizeWidth == 8      \* width of size_t in the model
MaxLen    == 4      \* length of the strings given to the string utilities
MaxChar   == 2      \* characters are 1..MaxChar, 0 is the terminating null
MaxTokens == 3      \* max_size() of the token list, and max_n_tokens

\* ------------------------------------------------------------- constants
variant_npos == 2^SizeWidth - 1

Copy    == 0
Move    == 1
Destroy == 2

Alts  == 0 .. NumAlts - 1
Vals  == 0 .. MaxVal

\* The variant objects of the program: `this` and `other` of every member
\* function, `lhs` and `rhs` of every free function.
Slots == {1, 2}

\* The local `temp` of swap lives in a slot of its own.
Temp == 0

\* Values of the member `operation`: the do_operation of alternative i is i,
\* the null operation (operation_type<void, false, false>) is NullOp, and an
\* indeterminate pointer (an uninitialised member that was read) is WildOp.
NullOp == NumAlts
WildOp == NumAlts + 1
Ops    == 0 .. NumAlts + 1

\* (mutant) index_of_type counts the alternatives from one
index_of_type_one_based(T) == T + 1

\* index_of_type<T>: a type is named by its position in TTypes.
index_of_type(T) == T

\* The value a default-constructed alternative has.
default_construct_in_place(i) == 0

\* ------------------------------------------------------------------ state
\*   types  the instantiation: what each alternative of TTypes can do
\*   v      the variant objects
\*   last   the call in progress: what it did and what it signalled
\*   text   the string given to the string utilities (string_utilities.h)
\*   out    what the last call of a string utility did and returned
VARIABLES types, v, last, text, out

vars == <<types, v, last, text, out>>

\* An instantiation whose alternatives differ in what they support:
\*   A0 copyable and moveable, A1 moveable only, A2 copyable only,
\*   A3 neither, and then again from A4 on; every constructor may throw.
MixedTypes ==
  [i \in Alts |-> [copyable |-> i % 4 \in {0, 2}, moveable |-> i % 4 \in {0, 1},
                   throwing |-> TRUE]]

\* An instantiation such as variant<int, string, bool>: every alternative is
\* copyable and moveable and no constructor throws.
RegularTypes ==
  [i \in Alts |-> [copyable |-> TRUE, moveable |-> TRUE, throwing |-> FALSE]]

\* etl::is_copy_constructible<type>::value, etl::is_move_constructible<type>::value
IsCopyable(i) == types[i].copyable
IsMoveable(i) == types[i].moveable

\* The constructor of alternative i may throw.
MayThrow(i) == types[i].throwing

\* A slot with no variant object in it.
NoVariant ==
  [alive |-> FALSE, type_id |-> variant_npos, operation |-> NullOp,
   live |-> FALSE, alt |-> 0, val |-> 0]

\* One call of a handler or of a placement new, as the log records it:
\*   k     what was called ("Copy", "Move", "Destroy", "Construct")
\*   h     the handler (an element of Ops) or the alternative constructed
\*   slot  the variant whose storage it acted on
\*   tag   the type_id of that variant when the call was made
\*   built the call constructed an object in the storage
\*   over  the storage held an alive object when the call constructed one
\*   ok    the call did what its name says: Destroy destroyed an alive object
\*         of the handler's type; Copy / Move / Construct built an object in
\*         storage that held none (Copy / Move: from an alive source object).
Ev(k, h, slot, tag, built, over, ok) ==
  [k |-> k, h |-> h, slot |-> slot, tag |-> tag, built |-> built, over |-> over, ok |-> ok]

OpName(op) == IF op = Copy THEN "Copy" ELSE IF op = Move THEN "Move" ELSE "Destroy"

\* A reference into the storage of a variant, narrowed to an alternative.
Ref(slot, alt) == [slot |-> slot, alt |-> alt]

NoRef == Ref(Temp, variant_npos)

\* The running state of one call: the objects, the handler calls made so far,
\* the error signalled, whether control went through an indeterminate
\* pointer, whether an alive object was lost with its storage.  `ref` is the
\* reference the call returns, `calls` the calls made to the caller's visitor
\* or callable, each with the references it was passed, `ret` the results of
\* the caller's callable that the call returns (f stands for itself: its
\* result on an argument list is written as that list), `b` the boolean a
\* comparison or query returns, `ord` the ordering operator<=> returns.
Call(objs) ==
  [v |-> objs, log |-> <<>>, err |-> "none", fault |-> FALSE, leak |-> FALSE,
   ref |-> NoRef, calls |-> <<>>, ret |-> <<>>, b |-> FALSE, ord |-> "none"]

index(vr) == vr.type_id

\* (mutant) a variant is valueless when its storage holds no value
valueless_by_exception_no_value(vr) == ~vr.live

valueless_by_exception(vr) == vr.type_id = variant_npos

\* ::new (pstorage) type(...)
construct_in_place(st, d, i, x) ==
  [st EXCEPT !.v[d].live = TRUE, !.v[d].alt = i, !.v[d].val = x,
             !.log = Append(@, Ev("Construct", i, d, st.v[d].type_id, TRUE,
                                  st.v[d].live, ~st.v[d].live))]

\* operation(op, data, other.data) where operation = h.  `u` is the value an
\* unspecified object has: a moved-from source, or what a read of storage
\* that holds no object of the handler's type yields.
do_operation(h, op, st, d, s, u) ==
  LET dst   == st.v[d]
      src   == st.v[s]
      srcOk == src.live /\ src.alt = h
      dstOk == dst.live /\ dst.alt = h
      x     == IF srcOk THEN src.val ELSE u
      none  == Ev(OpName(op), h, d, dst.type_id, FALSE, FALSE, FALSE)
  IN  IF h = WildOp
        THEN [st EXCEPT !.fault = TRUE, !.log = Append(@, none)]
      ELSE IF h = NullOp
        THEN [st EXCEPT !.log = Append(@, none)]
      ELSE IF op = Destroy
        THEN [st EXCEPT !.v[d].live = IF dstOk THEN FALSE ELSE @,
                        !.v[d].alt  = IF dstOk THEN 0 ELSE @,
                        !.v[d].val  = IF dstOk THEN 0 ELSE @,
                        !.log = Append(@, Ev("Destroy", h, d, dst.type_id, FALSE, FALSE, dstOk))]
      ELSE IF op = Copy /\ IsCopyable(h)
        THEN [st EXCEPT !.v[d].live = TRUE, !.v[d].alt = h, !.v[d].val = x,
                        !.log = Append(@, Ev("Copy", h, d, dst.type_id, TRUE, dst.live,
                                             srcOk /\ ~dst.live))]
      ELSE IF op = Move /\ IsMoveable(h)
        THEN [st EXCEPT !.v[d].live = TRUE, !.v[d].alt = h, !.v[d].val = x,
                        !.v[s].val = IF srcOk THEN u ELSE @,
                        !.log = Append(@, Ev("Move", h, d, dst.type_id, TRUE, dst.live,
                                             srcOk /\ ~dst.live))]
      ELSE \* default: "This should never occur."
             [st EXCEPT !.log = Append(@, none)]

\* ----------------------------------------------------------- construction
\* (mutant) the default constructor leaves the operation unbound
variant_default_unbound(st, d) ==
  LET s1 == construct_in_place(st, d, 0, default_construct_in_place(0))
  IN  [s1 EXCEPT !.v[d].alive = TRUE, !.v[d].type_id = 0]

\* variant()
variant_default(st, d) ==
  LET s1 == construct_in_place(st, d, 0, default_construct_in_place(0))
  IN  [s1 EXCEPT !.v[d].alive = TRUE, !.v[d].operation = 0, !.v[d].type_id = 0]

\* variant(T&& value)
variant_value(st, d, T, x) ==
  LET s1 == [st EXCEPT !.v[d].alive = TRUE, !.v[d].operation = T,
                       !.v[d].type_id = index_of_type(T)]
  IN  construct_in_place(s1, d, T, x)

\* variant(in_place_type_t<T>, args...)
variant_in_place_type(st, d, T, x) ==
  LET s1 == [st EXCEPT !.v[d].alive = TRUE, !.v[d].operation = T,
                       !.v[d].type_id = index_of_type(T)]
  IN  construct_in_place(s1, d, T, x)

\* (mutant) the in-place-index constructor binds the handler of alternative 0
variant_in_place_index_bind0(st, d, Index, x) ==
  LET s1 == [st EXCEPT !.v[d].alive = TRUE, !.v[d].type_id = Index]
      s2 == construct_in_place(s1, d, Index, x)
  IN  [s2 EXCEPT !.v[d].operation = 0]

\* variant(in_place_index_t<Index>, args...)
variant_in_place_index(st, d, Index, x) ==
  LET s1 == [st EXCEPT !.v[d].alive = TRUE, !.v[d].type_id = Index]
      s2 == construct_in_place(s1, d, Index, x)
  IN  [s2 EXCEPT !.v[d].operation = Index]

\* variant(const variant& other), this != &other
variant_copy(st, d, s, u) ==
  LET s1 == [st EXCEPT !.v[d].alive = TRUE, !.v[d].operation = st.v[s].operation,
                       !.v[d].type_id = st.v[s].type_id]
  IN  IF index(st.v[s]) = variant_npos
        THEN [s1 EXCEPT !.v[d].type_id = variant_npos]
        ELSE do_operation(s1.v[d].operation, Copy, s1, d, s, u)

\* (mutant) the move constructor has no this != &other test
variant_move_no_identity_test(st, d, s, u, ind) ==
  LET s1 == [st EXCEPT !.v[d].alive = TRUE,
                       !.v[d].operation = IF d = s THEN ind ELSE st.v[s].operation,
                       !.v[d].type_id = IF d = s THEN 0 ELSE st.v[s].type_id]
  IN  IF index(s1.v[s]) = variant_npos
        THEN [s1 EXCEPT !.v[d].type_id = variant_npos]
        ELSE do_operation(s1.v[d].operation, Move, s1, d, s, u)

\* variant(variant&& other).  When this == &other the initialiser
\* operation(other.operation) reads the member it initialises: `ind` is the
\* indeterminate pointer it gets.
variant_move(st, d, s, u, ind) ==
  LET s1 == [st EXCEPT !.v[d].alive = TRUE,
                       !.v[d].operation = IF d = s THEN ind ELSE st.v[s].operation,
                       !.v[d].type_id = IF d = s THEN variant_npos ELSE st.v[s].type_id]
  IN  IF d # s
        THEN IF index(st.v[s]) = variant_npos
               THEN [s1 EXCEPT !.v[d].type_id = variant_npos]
               ELSE do_operation(s1.v[d].operation, Move, s1, d, s, u)
        ELSE [s1 EXCEPT !.v[d].type_id = variant_npos]

\* ~variant().  The storage goes away with the object: an object still alive
\* in it is never destroyed (leak).
variant_dtor(st, d) ==
  LET s1 == IF index(st.v[d]) # variant_npos
              THEN do_operation(st.v[d].operation, Destroy, st, d, d, 0)
              ELSE st
  IN  [s1 EXCEPT !.v[d] = NoVariant, !.leak = @ \/ s1.v[d].live]

\* --------------------------------------------------------------- mutation
\* (mutant) emplace makes the variant valueless when the constructor throws
emplace_type_valueless_on_throw(st, d, T, x, throws) ==
  LET s1 == do_operation(st.v[d].operation, Destroy, st, d, d, 0)
  IN  IF throws
        THEN [s1 EXCEPT !.err = "constructor_throws", !.v[d].type_id = variant_npos]
        ELSE LET s2 == construct_in_place(s1, d, T, x)
             IN  [s2 EXCEPT !.v[d].operation = T, !.v[d].type_id = index_of_type(T),
                            !.ref = Ref(d, T)]

\* emplace<T>(args...).  `throws`: the constructor of T throws.
emplace_type(st, d, T, x, throws) ==
  LET s1 == do_operation(st.v[d].operation, Destroy, st, d, d, 0)
  IN  IF throws
        THEN [s1 EXCEPT !.err = "constructor_throws"]
        ELSE LET s2 == construct_in_place(s1, d, T, x)
             IN  [s2 EXCEPT !.v[d].operation = T, !.v[d].type_id = index_of_type(T),
                            !.ref = Ref(d, T)]

\* (mutant) emplace constructs the new value before it destroys the old one
emplace_index_destroy_late(st, d, Index, x, throws) ==
  IF throws
    THEN [st EXCEPT !.err = "constructor_throws"]
    ELSE LET s1 == construct_in_place(st, d, Index, x)
             s2 == do_operation(st.v[d].operation, Destroy, s1, d, d, 0)
         IN  [s2 EXCEPT !.v[d].operation = Index, !.v[d].type_id = Index,
                        !.ref = Ref(d, Index)]

\* emplace<Index>(args...)
emplace_index(st, d, Index, x, throws) ==
  LET s1 == do_operation(st.v[d].operation, Destroy, st, d, d, 0)
  IN  IF throws
        THEN [s1 EXCEPT !.err = "constructor_throws"]
        ELSE LET s2 == construct_in_place(s1, d, Index, x)
             IN  [s2 EXCEPT !.v[d].operation = Index, !.v[d].type_id = Index,
                            !.ref = Ref(d, Index)]

\* operator=(T&& value)
assign_value(st, d, T, x, throws) ==
  LET s1 == do_operation(st.v[d].operation, Destroy, st, d, d, 0)
  IN  IF throws
        THEN [s1 EXCEPT !.err = "constructor_throws"]
        ELSE LET s2 == construct_in_place(s1, d, T, x)
             IN  [s2 EXCEPT !.v[d].operation = T, !.v[d].type_id = index_of_type(T)]

\* (mutant) copy assignment has no this != &other test
assign_copy_no_identity_test(st, d, s, u) ==
  IF index(st.v[s]) = variant_npos
    THEN [st EXCEPT !.v[d].type_id = variant_npos]
    ELSE LET s1 == do_operation(st.v[d].operation, Destroy, st, d, d, 0)
             s2 == [s1 EXCEPT !.v[d].operation = s1.v[s].operation]
             s3 == do_operation(s2.v[d].operation, Copy, s2, d, s, u)
         IN  [s3 EXCEPT !.v[d].type_id = s3.v[s].type_id]

\* operator=(const variant& other)
assign_copy(st, d, s, u) ==
  IF d # s
    THEN IF index(st.v[s]) = variant_npos
           THEN [st EXCEPT !.v[d].type_id = variant_npos]
           ELSE LET s1 == do_operation(st.v[d].operation, Destroy, st, d, d, 0)
                    s2 == [s1 EXCEPT !.v[d].operation = s1.v[s].operation]
                    s3 == do_operation(s2.v[d].operation, Copy, s2, d, s, u)
                IN  [s3 EXCEPT !.v[d].type_id = s3.v[s].type_id]
    ELSE st

\* operator=(variant&& other)
assign_move(st, d, s, u) ==
  IF d # s
    THEN IF index(st.v[s]) = variant_npos
           THEN [st EXCEPT !.v[d].type_id = variant_npos]
           ELSE LET s1 == do_operation(st.v[d].operation, Destroy, st, d, d, 0)
                    s2 == [s1 EXCEPT !.v[d].operation = s1.v[s].operation]
                    s3 == do_operation(s2.v[d].operation, Move, s2, d, s, u)
                IN  [s3 EXCEPT !.v[d].type_id = s3.v[s].type_id]
    ELSE st

\* swap(variant& rhs): temp is constructed, both assignments run, temp is
\* destroyed at the end of the block.
swap(st, d, rhs, u) ==
  LET s1 == variant_move(st, Temp, d, u, NullOp)
      s2 == assign_move(s1, d, rhs, u)
      s3 == assign_move(s2, rhs, Temp, u)
  IN  variant_dtor(s3, Temp)

\* etl::swap(lhs, rhs)
etl_swap(st, lhs, rhs, u) == swap(st, lhs, rhs, u)

\* ---------------------------------------------------------------- queries
\* A type that is not one of TTypes, and the types a query can name.
NotAlternative == NumAlts
TypeNames == Alts \cup {NotAlternative}

\* is_supported_type<T>()
is_supported_type(T) == T \in Alts

\* (mutant) is_type has no overload for unsupported types: the index of a
\* type that is not in TTypes is the sentinel
is_type_one_overload(st, d, T) ==
  [st EXCEPT !.b = (st.v[d].type_id =
                      IF is_supported_type(T) THEN index_of_type(T) ELSE variant_npos)]

\* is_type<T>(), both overloads
is_type(st, d, T) ==
  IF is_supported_type(T)
    THEN [st EXCEPT !.b = (st.v[d].type_id = index_of_type(T))]
    ELSE [st EXCEPT !.b = FALSE]

\* (mutant) two valueless variants do not hold the same type
is_same_type_both_valued(st, d, other) ==
  [st EXCEPT !.b = (st.v[d].type_id = st.v[other].type_id
                      /\ st.v[d].type_id # variant_npos)]

\* is_same_type(const variant& other)
is_same_type(st, d, other) ==
  [st EXCEPT !.b = (st.v[d].type_id = st.v[other].type_id)]

\* etl::type_list_index_of_type<etl::type_list<TTypes...>, T>::value
type_list_index_of_type(T) == IF T \in Alts THEN T ELSE variant_npos

\* holds_alternative<T>(v)
holds_alternative_type(st, d, T) ==
  LET Index == type_list_index_of_type(T)
  IN  [st EXCEPT !.b = IF Index = variant_npos THEN FALSE ELSE index(st.v[d]) = Index]

\* holds_alternative<Index>(v)
holds_alternative_index(st, d, Index) ==
  [st EXCEPT !.b = (Index = index(st.v[d]))]

\* holds_alternative(index, v), the index given at run time
holds_alternative_runtime(st, i, d) ==
  [st EXCEPT !.b = (i = index(st.v[d]))]

\* The indices a caller can name: those of the alternatives, one past them,
\* and variant_npos.
IndexNames == Alts \cup {NumAlts, variant_npos}

\* ----------------------------------------------------------------- access
\* ETL_ASSERT(b, e) signals e and leaves the function when b is false.

\* (mutant) get signals bad_variant_access when the variant is valueless
get_lvalue_bad_access(st, d, Index) ==
  IF valueless_by_exception(st.v[d])
    THEN [st EXCEPT !.err = "bad_variant_access"]
    ELSE IF Index # index(st.v[d])
      THEN [st EXCEPT !.err = "variant_incorrect_type_exception"]
      ELSE [st EXCEPT !.ref = Ref(d, Index)]

\* get<Index>(variant& v)
get_lvalue(st, d, Index) ==
  IF Index # index(st.v[d])
    THEN [st EXCEPT !.err = "variant_incorrect_type_exception"]
    ELSE [st EXCEPT !.ref = Ref(d, Index)]

\* get<Index>(variant&& v)
get_rvalue(st, d, Index) ==
  [st EXCEPT !.ref = Ref(d, Index)]

\* get<Index>(const variant& v)
get_const_lvalue(st, d, Index) ==
  IF Index # index(st.v[d])
    THEN [st EXCEPT !.err = "variant_incorrect_type_exception"]
    ELSE [st EXCEPT !.ref = Ref(d, Index)]

\* get<Index>(const variant&& v)
get_const_rvalue(st, d, Index) ==
  IF Index # index(st.v[d])
    THEN [st EXCEPT !.err = "variant_incorrect_type_exception"]
    ELSE [st EXCEPT !.ref = Ref(d, Index)]

\* The value categories of a variant argument, one get overload each.
Overloads == {"lvalue", "rvalue", "const_lvalue", "const_rvalue"}

\* get<Index>(v), by overload resolution
get_index(st, d, Index, cat) ==
  CASE cat = "lvalue"       -> get_lvalue(st, d, Index)
    [] cat = "rvalue"       -> get_rvalue(st, d, Index)
    [] cat = "const_lvalue" -> get_const_lvalue(st, d, Index)
    [] cat = "const_rvalue" -> get_const_rvalue(st, d, Index)

\* get<T>(v): all four overloads forward to get<Index> of the same category
get_type(st, d, T, cat) == get_index(st, d, index_of_type(T), cat)

\* The null pointer to a variant; the null pointer to an alternative that
\* get_if returns is NoRef.
nullptr == 0 - 1

\* (mutant) get_if tests the pointer and not the tag
get_if_index_no_tag_test(st, pv, Index, const) ==
  IF pv # nullptr
    THEN get_index(st, pv, Index, IF const THEN "const_lvalue" ELSE "lvalue")
    ELSE [st EXCEPT !.ref = NoRef]

\* get_if<Index>(variant* pv), get_if<Index>(const variant* pv)
get_if_index(st, pv, Index, const) ==
  IF pv # nullptr /\ index(st.v[pv]) = Index
    THEN get_index(st, pv, Index, IF const THEN "const_lvalue" ELSE "lvalue")
    ELSE [st EXCEPT !.ref = NoRef]

\* get_if<T>(variant* pv), get_if<T>(const variant* pv)
get_if_type(st, pv, T, const) ==
  LET Index == index_of_type(T)
  IN  IF pv # nullptr /\ index(st.v[pv]) = Index
        THEN get_index(st, pv, Index, IF const THEN "const_lvalue" ELSE "lvalue")
        ELSE [st EXCEPT !.ref = NoRef]

\* attempt_visitor<Index>(visitor), const and non-const
attempt_visitor(st, d, Index, const) ==
  IF Index = index(st.v[d])
    THEN LET g == get_index(st, d, Index, IF const THEN "const_lvalue" ELSE "lvalue")
         IN  [matched |-> TRUE,
              st |-> IF g.err # "none" THEN g
                     ELSE [g EXCEPT !.ref = NoRef, !.calls = Append(@, <<g.ref>>)]]
    ELSE [matched |-> FALSE, st |-> st]

\* do_visitor: (attempt_visitor<I>(visitor) || ...), I = 0 .. N-1 from I on
RECURSIVE do_visitor(_, _, _, _)
do_visitor(st, d, I, const) ==
  IF I >= NumAlts
    THEN st
    ELSE LET r == attempt_visitor(st, d, I, const)
         IN  IF r.matched THEN r.st ELSE do_visitor(r.st, d, I + 1, const)

\* attempt_operator<Index>(visitor), const and non-const
attempt_operator(st, d, Index, const) ==
  IF Index = index(st.v[d])
    THEN LET g == get_index(st, d, Index, IF const THEN "const_lvalue" ELSE "lvalue")
         IN  [matched |-> TRUE,
              st |-> IF g.err # "none" THEN g
                     ELSE [g EXCEPT !.ref = NoRef, !.calls = Append(@, <<g.ref>>)]]
    ELSE [matched |-> FALSE, st |-> st]

\* do_operator: (attempt_operator<I>(visitor) || ...), I = 0 .. N-1 from I on
RECURSIVE do_operator(_, _, _, _)
do_operator(st, d, I, const) ==
  IF I >= NumAlts
    THEN st
    ELSE LET r == attempt_operator(st, d, I, const)
         IN  IF r.matched THEN r.st ELSE do_operator(r.st, d, I + 1, const)

\* accept(TVisitor&): is_visitor<TVisitor> selects do_visitor or do_operator
accept(st, d, is_visitor, const) ==
  IF is_visitor THEN do_visitor(st, d, 0, const) ELSE do_operator(st, d, 0, const)

\* accept_visitor(TVisitor&), deprecated
accept_visitor(st, d, const) == do_visitor(st, d, 0, const)

\* accept_functor(TVisitor&), deprecated
accept_functor(st, d, const) == do_operator(st, d, 0, const)

\* The call that ends a visit: f(get<t1>(v1), ..., get<tk>(vk)).  Each
\* constexpr_visit_closure evaluates its get<tIndex> when it is invoked, the
\* outermost first; `bound` lists the (variant, tIndex) still to evaluate.
RECURSIVE invoke(_, _, _, _)
invoke(st, bound, args, cat) ==
  IF bound = <<>>
    THEN [st EXCEPT !.calls = Append(@, args), !.ret = <<args>>]
    ELSE LET g == get_index(st, Head(bound).slot, Head(bound).alt, cat)
         IN  IF g.err # "none" THEN g
             ELSE invoke([g EXCEPT !.ref = NoRef], Tail(bound), Append(args, g.ref), cat)

\* private_variant::do_visit and do_visit_single.  vs: the variants not yet
\* dispatched, bound: the closures made so far.
RECURSIVE do_visit(_, _, _, _)

\* (mutant) the closure passes its own argument after the ones it is given
do_visit_single_arg_last(st, vs, bound, tIndex, cat) ==
  IF Len(vs) = 1
    THEN invoke(st, <<Ref(Head(vs), tIndex)>> \o bound, <<>>, cat)
    ELSE do_visit(st, Tail(vs), <<Ref(Head(vs), tIndex)>> \o bound, cat)

do_visit_single(st, vs, bound, tIndex, cat) ==
  IF Len(vs) = 1
    THEN invoke(st, Append(bound, Ref(Head(vs), tIndex)), <<>>, cat)
    ELSE do_visit(st, Tail(vs), Append(bound, Ref(Head(vs), tIndex)), cat)

\* (mutant) only the first variant is checked for being valueless
do_visit_first_only(st, vs, bound, cat) ==
  IF bound = <<>> /\ valueless_by_exception(st.v[Head(vs)])
    THEN [st EXCEPT !.err = "bad_variant_access"]
    ELSE do_visit_single(st, vs, bound, index(st.v[Head(vs)]), cat)

do_visit(st, vs, bound, cat) ==
  IF valueless_by_exception(st.v[Head(vs)])
    THEN [st EXCEPT !.err = "bad_variant_access"]
    ELSE do_visit_single(st, vs, bound, index(st.v[Head(vs)]), cat)

\* etl::visit(f, vs...)
visit(st, vs, cat) == do_visit(st, vs, <<>>, cat)

\* ------------------------------------------------------------- comparison
\* What a read through a reference yields: the value of the object alive
\* there, or the unspecified u when no object of that alternative is.
Read(objs, r, u) ==
  IF objs[r.slot].live /\ objs[r.slot].alt = r.alt THEN objs[r.slot].val ELSE u

\* The comparison of the two values: g is the call after etl::get<TValue>(rhs)
\* has returned g.ref.
downcasted_compare(st, g, lhs_downcasted, less, ul, ur) ==
  IF g.err # "none" THEN g
  ELSE [g EXCEPT !.ref = NoRef,
                 !.b = IF less
                         THEN Read(st.v, lhs_downcasted, ul) < Read(st.v, g.ref, ur)
                         ELSE Read(st.v, lhs_downcasted, ul) = Read(st.v, g.ref, ur)]

\* equality_visitor::operator()(lhs_downcasted) and that of less_than_visitor,
\* as the last call that the visit s1 made: lhs_downcasted is the reference
\* the visit passed.
visitor_operator(st, s1, rhs, less, ul, ur) ==
  IF s1.err # "none" THEN s1
  ELSE downcasted_compare(st,
         get_type(s1, rhs, s1.calls[Len(s1.calls)][1].alt, "const_lvalue"),
         s1.calls[Len(s1.calls)][1], less, ul, ur)

\* etl::visit(visitor, lhs) with an equality_visitor or less_than_visitor on
\* rhs: lhs_downcasted == etl::get<TValue>(rhs), resp. <.  `less` selects the
\* visitor; ul and ur are what reads of storage without a value yield.
compare_visit(st, lhs, rhs, less, ul, ur) ==
  visitor_operator(st, visit(st, <<lhs>>, "const_lvalue"), rhs, less, ul, ur)

\* (mutant) equality of two variants with the same tag does not look at the
\* values
operator_eq_tags_only(st, lhs, rhs, ul, ur) ==
  IF valueless_by_exception(st.v[lhs]) /\ valueless_by_exception(st.v[rhs])
    THEN [st EXCEPT !.b = TRUE]
  ELSE IF valueless_by_exception(st.v[lhs]) \/ valueless_by_exception(st.v[rhs])
    THEN [st EXCEPT !.b = FALSE]
  ELSE [st EXCEPT !.b = index(st.v[lhs]) = index(st.v[rhs])]

\* operator==(lhs, rhs)
operator_eq(st, lhs, rhs, ul, ur) ==
  IF valueless_by_exception(st.v[lhs]) /\ valueless_by_exception(st.v[rhs])
    THEN [st EXCEPT !.b = TRUE]
  ELSE IF valueless_by_exception(st.v[lhs]) \/ valueless_by_exception(st.v[rhs])
    THEN [st EXCEPT !.b = FALSE]
  ELSE IF index(st.v[lhs]) # index(st.v[rhs])
    THEN [st EXCEPT !.b = FALSE]
  ELSE compare_visit(st, lhs, rhs, FALSE, ul, ur)

\* !(...) of a comparison: the negation of what it returned, when it returned
negation(r) == IF r.err # "none" THEN r ELSE [r EXCEPT !.b = ~r.b]

\* operator!=(lhs, rhs)
operator_ne(st, lhs, rhs, ul, ur) == negation(operator_eq(st, lhs, rhs, ul, ur))

\* (mutant) a valueless left operand is not less than an operand with a value
operator_lt_valueless_last(st, lhs, rhs, ul, ur) ==
  IF valueless_by_exception(st.v[lhs]) \/ valueless_by_exception(st.v[rhs])
    THEN [st EXCEPT !.b = FALSE]
  ELSE IF index(st.v[lhs]) # index(st.v[rhs])
    THEN [st EXCEPT !.b = index(st.v[lhs]) < index(st.v[rhs])]
  ELSE compare_visit(st, lhs, rhs, TRUE, ul, ur)

\* operator<(lhs, rhs)
operator_lt(st, lhs, rhs, ul, ur) ==
  IF valueless_by_exception(st.v[lhs]) /\ valueless_by_exception(st.v[rhs])
    THEN [st EXCEPT !.b = FALSE]
  ELSE IF valueless_by_exception(st.v[lhs])
    THEN [st EXCEPT !.b = TRUE]
  ELSE IF valueless_by_exception(st.v[rhs])
    THEN [st EXCEPT !.b = FALSE]
  ELSE IF index(st.v[lhs]) # index(st.v[rhs])
    THEN [st EXCEPT !.b = index(st.v[lhs]) < index(st.v[rhs])]
  ELSE compare_visit(st, lhs, rhs, TRUE, ul, ur)

\* operator>(lhs, rhs)
operator_gt(st, lhs, rhs, ul, ur) == operator_lt(st, rhs, lhs, ur, ul)

\* (mutant) operator<= is operator<
operator_le_strict(st, lhs, rhs, ul, ur) == operator_lt(st, lhs, rhs, ul, ur)

\* operator<=(lhs, rhs)
operator_le(st, lhs, rhs, ul, ur) == negation(operator_gt(st, lhs, rhs, ul, ur))

\* operator>=(lhs, rhs)
operator_ge(st, lhs, rhs, ul, ur) == negation(operator_lt(st, lhs, rhs, ul, ur))

\* The std::strong_ordering that a <=> c of two values is.
three_way(a, c) == IF a < c THEN "less" ELSE IF a = c THEN "equal" ELSE "greater"

\* The three-way comparison of the two values: g is the call after
\* etl::get<TValue>(rhs) has returned g.ref.
downcasted_three_way(st, g, lhs_downcasted, ul, ur) ==
  IF g.err # "none" THEN g
  ELSE [g EXCEPT !.ref = NoRef,
                 !.ord = three_way(Read(st.v, lhs_downcasted, ul), Read(st.v, g.ref, ur))]

\* compare_visitor::operator()(lhs_downcasted), as the last call that the
\* visit s1 made.
compare_visitor_operator(st, s1, rhs, ul, ur) ==
  IF s1.err # "none" THEN s1
  ELSE downcasted_three_way(st,
         get_type(s1, rhs, s1.calls[Len(s1.calls)][1].alt, "const_lvalue"),
         s1.calls[Len(s1.calls)][1], ul, ur)

\* etl::visit(visitor, lhs) with a compare_visitor on rhs:
\* lhs_downcasted <=> etl::get<TValue>(rhs)
three_way_visit(st, lhs, rhs, ul, ur) ==
  compare_visitor_operator(st, visit(st, <<lhs>>, "const_lvalue"), rhs, ul, ur)

\* (mutant) operator<=> orders variants with different tags by the tag of
\* the right operand first
operator_spaceship_index_reversed(st, lhs, rhs, ul, ur) ==
  IF valueless_by_exception(st.v[lhs]) /\ valueless_by_exception(st.v[rhs])
    THEN [st EXCEPT !.ord = "equal"]
  ELSE IF valueless_by_exception(st.v[lhs])
    THEN [st EXCEPT !.ord = "less"]
  ELSE IF valueless_by_exception(st.v[rhs])
    THEN [st EXCEPT !.ord = "greater"]
  ELSE IF index(st.v[lhs]) # index(st.v[rhs])
    THEN [st EXCEPT !.ord = three_way(index(st.v[rhs]), index(st.v[lhs]))]
  ELSE three_way_visit(st, lhs, rhs, ul, ur)

\* operator<=>(lhs, rhs)
operator_spaceship(st, lhs, rhs, ul, ur) ==
  IF valueless_by_exception(st.v[lhs]) /\ valueless_by_exception(st.v[rhs])
    THEN [st EXCEPT !.ord = "equal"]
  ELSE IF valueless_by_exception(st.v[lhs])
    THEN [st EXCEPT !.ord = "less"]
  ELSE IF valueless_by_exception(st.v[rhs])
    THEN [st EXCEPT !.ord = "greater"]
  ELSE IF index(st.v[lhs]) # index(st.v[rhs])
    THEN [st EXCEPT !.ord = three_way(index(st.v[lhs]), index(st.v[rhs]))]
  ELSE three_way_visit(st, lhs, rhs, ul, ur)

\* The comparison operators of two variants.
CmpOps == {"operator==", "operator!=", "operator<", "operator>", "operator<=", "operator>="}

compare(name, st, lhs, rhs, ul, ur) ==
  CASE name = "operator==" -> operator_eq(st, lhs, rhs, ul, ur)
    [] name = "operator!=" -> operator_ne(st, lhs, rhs, ul, ur)
    [] name = "operator<"  -> operator_lt(st, lhs, rhs, ul, ur)
    [] name = "operator>"  -> operator_gt(st, lhs, rhs, ul, ur)
    [] name = "operator<=" -> operator_le(st, lhs, rhs, ul, ur)
    [] name = "operator>=" -> operator_ge(st, lhs, rhs, ul, ur)

\* The argument lists of etl::visit: one to MaxVisit variants, in any order.
VisitArgs == UNION {[1 .. k -> Slots] : k \in 1 .. MaxVisit}

\* ------------------------------------------------------- string utilities
\* include/etl/string_utilities.h.  A string is the sequence of its
\* characters; `null` says that its data() is the null pointer.  Positions
\* are offsets from data(), so the character at position p of s is s[p + 1].
size_t_max == 2^SizeWidth - 1

Chars == 1 .. MaxChar

\* The delimiter string given to the tokeniser: the one character 1.
Delimiters == <<1>>

String(s) == [null |-> FALSE, s |-> s]
NullString == [null |-> TRUE, s |-> <<>>]

\* TStringView(first_ptr, size), and the default TStringView()
View(pos, size) == [null |-> FALSE, pos |-> pos, size |-> size]
NullView == [null |-> TRUE, pos |-> 0, size |-> 0]

\* etl::optional<TStringView>
Some(view) == [has |-> TRUE, view |-> view]
None == [has |-> FALSE, view |-> NullView]

\* find_first_of(first, last, delimiters) on the characters of s; `end` is
\* its parameter last
RECURSIVE find_first_of(_, _, _, _)
find_first_of(s, first, end, delimiters) ==
  IF first = end
    THEN end
    ELSE IF \E pd \in DOMAIN delimiters : s[first + 1] = delimiters[pd]
           THEN first
           ELSE find_first_of(s, first + 1, end, delimiters)

\* The while (!token_found) loop of get_token, entered with `view`.
RECURSIVE get_token_loop(_, _, _, _)

\* (mutant) get_token returns the empty tokens whatever ignore_empty_tokens is
get_token_loop_keeps_empty(input, delimiters, view, ignore_empty_tokens) ==
  LET position == IF view.null THEN 0 ELSE view.pos + view.size + 1
  IN  IF ~view.null /\ position > Len(input.s)
        THEN None
        ELSE LET first_ptr == position
                 last_ptr  == find_first_of(input.s, first_ptr, Len(input.s), delimiters)
             IN  Some(View(first_ptr, last_ptr - first_ptr))

get_token_loop(input, delimiters, view, ignore_empty_tokens) ==
  LET position == IF view.null THEN 0 ELSE view.pos + view.size + 1
  IN  IF ~view.null /\ position > Len(input.s)
        THEN None
        ELSE LET first_ptr == position
                 last_ptr  == find_first_of(input.s, first_ptr, Len(input.s), delimiters)
                 next      == View(first_ptr, last_ptr - first_ptr)
             IN  IF next.size # 0 \/ ~ignore_empty_tokens
                   THEN Some(next)
                   ELSE get_token_loop(input, delimiters, next, ignore_empty_tokens)

\* get_token(input, delimiters, last_view, ignore_empty_tokens)
get_token(input, delimiters, last_view, ignore_empty_tokens) ==
  IF input.null
    THEN None
    ELSE get_token_loop(input, delimiters,
                        IF last_view.has THEN last_view.view ELSE NullView,
                        ignore_empty_tokens)

\* The while loop of get_token_list: count, the token of the last get_token
\* and the output list so far.
RECURSIVE get_token_list_loop(_, _, _, _, _, _, _, _)
get_token_list_loop(input, max_size, delimiters, ignore_empty_tokens, max_n_tokens, count, token, output) ==
  IF count # max_size /\ count # max_n_tokens
    THEN LET t == get_token(input, delimiters, token, ignore_empty_tokens)
         IN  IF t.has
               THEN get_token_list_loop(input, max_size, delimiters, ignore_empty_tokens,
                                        max_n_tokens, count + 1, t, Append(output, t.view))
               ELSE [token |-> t, output |-> output]
    ELSE [token |-> token, output |-> output]

\* get_token_list(input, output, delimiters, ignore_empty_tokens, max_n_tokens)
\* with an empty output list of the given max_size()
get_token_list(input, max_size, delimiters, ignore_empty_tokens, max_n_tokens) ==
  LET r == get_token_list_loop(input, max_size, delimiters, ignore_empty_tokens,
                               max_n_tokens, 0, None, <<>>)
      all_tokens_found == (r.token.has = FALSE)
  IN  [output |-> r.output, result |-> all_tokens_found]

\* *src at offset i of a null-terminated string: the character, or the
\* terminating null that follows the last one.
CharAt(src, i) == IF i < Len(src.s) THEN src.s[i + 1] ELSE 0

\* The while loop of str_n_copy; writes: the <<offset, character>> stored
\* through dst so far.
RECURSIVE str_n_copy_loop(_, _, _, _)
str_n_copy_loop(src, n, count, writes) ==
  IF count # n /\ CharAt(src, count) # 0
    THEN str_n_copy_loop(src, n, count + 1, Append(writes, <<count, CharAt(src, count)>>))
    ELSE [count |-> count, writes |-> writes]

\* (mutant) str_n_copy terminates the destination also after n characters
str_n_copy_always_terminates(src, n, dst_null) ==
  IF src.null \/ dst_null
    THEN [count |-> 0, truncated |-> FALSE, terminated |-> FALSE, writes |-> <<>>, read |-> 0 - 1]
    ELSE LET r == str_n_copy_loop(src, n, 0, <<>>)
         IN  [count |-> r.count, truncated |-> r.count = n /\ CharAt(src, r.count) # 0,
              terminated |-> TRUE,
              writes |-> Append(r.writes, <<r.count, 0>>), read |-> r.count]

\* str_n_copy(src, n, dst); dst_null: dst is the null pointer.  `read` is
\* the largest offset of src that was read.
str_n_copy(src, n, dst_null) ==
  IF src.null \/ dst_null
    THEN [count |-> 0, truncated |-> FALSE, terminated |-> FALSE, writes |-> <<>>, read |-> 0 - 1]
    ELSE LET r == str_n_copy_loop(src, n, 0, <<>>)
         IN  IF r.count # n
               THEN [count |-> r.count, truncated |-> FALSE, terminated |-> TRUE,
                     writes |-> Append(r.writes, <<r.count, 0>>), read |-> r.count]
               ELSE [count |-> r.count, truncated |-> CharAt(src, r.count) # 0,
                     terminated |-> FALSE, writes |-> r.writes, read |-> r.count]

\* No string utility has been called.
NoOut ==
  [op |-> "none", ignore |-> FALSE, max_n |-> 0, max_size |-> 0, n |-> 0,
   dst_null |-> FALSE, output |-> <<>>, result |-> FALSE, count |-> 0,
   truncated |-> FALSE, terminated |-> FALSE, writes |-> <<>>, read |-> 0 - 1,
   token |-> None, tokens |-> <<>>]

\* ---------------------------------------------------------------- actions
\* Calls are made one at a time: `last` holds what the call in progress did
\* and signalled until it has returned to its caller (Return).  A call through
\* an indeterminate pointer never returns.
Idle ==
  [op |-> "none", d |-> Temp, s |-> Temp, i |-> 0, log |-> <<>>,
   err |-> "none", fault |-> FALSE, leak |-> FALSE, pre |-> v,
   ref |-> NoRef, calls |-> <<>>, cat |-> "lvalue", vs |-> <<>>, x |-> 0,
   ret |-> <<>>, b |-> FALSE, ord |-> "none"]

\* A query: the objects stay as they are.
Answer(name, d, i, cat, vs, st) ==
  /\ last.op = "none"
  /\ types' = types
  /\ UNCHANGED <<text, out>>
  /\ v' = v
  /\ last' = [op |-> name, d |-> d, s |-> d, i |-> i, log |-> st.log,
              err |-> st.err, fault |-> st.fault, leak |-> st.leak, pre |-> v,
              ref |-> st.ref, calls |-> st.calls, cat |-> cat, vs |-> vs, x |-> 0,
              ret |-> st.ret, b |-> st.b, ord |-> st.ord]

\* A query or comparison of two variants d and s.
Answer2(name, d, s, st) ==
  /\ last.op = "none"
  /\ types' = types
  /\ UNCHANGED <<text, out>>
  /\ v' = v
  /\ last' = [op |-> name, d |-> d, s |-> s, i |-> 0, log |-> st.log,
              err |-> st.err, fault |-> st.fault, leak |-> st.leak, pre |-> v,
              ref |-> st.ref, calls |-> st.calls, cat |-> "const_lvalue", vs |-> <<>>,
              x |-> 0, ret |-> st.ret, b |-> st.b, ord |-> st.ord]

\* A call with a value argument x.
DoneX(name, d, s, i, x, st) ==
  /\ last.op = "none"
  /\ types' = types
  /\ UNCHANGED <<text, out>>
  /\ v' = st.v
  /\ last' = [op |-> name, d |-> d, s |-> s, i |-> i, log |-> st.log,
              err |-> st.err, fault |-> st.fault, leak |-> st.leak, pre |-> v,
              ref |-> st.ref, calls |-> st.calls, cat |-> "lvalue", vs |-> <<>>,
              x |-> x, ret |-> st.ret, b |-> st.b, ord |-> st.ord]

Done(name, d, s, i, st) == DoneX(name, d, s, i, 0, st)

Init ==
  /\ types = MixedTypes
  /\ v = [n \in {Temp} \cup Slots |-> NoVariant]
  /\ last = Idle
  /\ text = NullString
  /\ out = NoOut

DefaultConstruct ==
  \E d \in Slots :
    /\ ~v[d].alive
    /\ Done("variant()", d, d, 0, variant_default(Call(v), d))

ValueConstruct ==
  \E d \in Slots, T \in Alts, x \in Vals :
    /\ ~v[d].alive
    /\ DoneX("variant(T&&)", d, d, T, x, variant_value(Call(v), d, T, x))

InPlaceTypeConstruct ==
  \E d \in Slots, T \in Alts, x \in Vals :
    /\ ~v[d].alive
    /\ DoneX("variant(in_place_type)", d, d, T, x, variant_in_place_type(Call(v), d, T, x))

InPlaceIndexConstruct ==
  \E d \in Slots, Index \in Alts, x \in Vals :
    /\ ~v[d].alive
    /\ DoneX("variant(in_place_index)", d, d, Index, x, variant_in_place_index(Call(v), d, Index, x))

\* `other` is an object that exists: the model does not make the call
\* variant v(v), whose own type_id is read before it is set.
CopyConstruct ==
  \E d \in Slots, s \in Slots, u \in Vals :
    /\ ~v[d].alive
    /\ v[s].alive
    /\ Done("variant(const variant&)", d, s, 0, variant_copy(Call(v), d, s, u))

MoveConstruct ==
  \E d \in Slots, s \in Slots, u \in Vals, ind \in Ops :
    /\ ~v[d].alive
    /\ v[s].alive \/ s = d
    /\ Done("variant(variant&&)", d, s, 0, variant_move(Call(v), d, s, u, ind))

Destruct ==
  \E d \in Slots :
    /\ v[d].alive
    /\ Done("~variant()", d, d, 0, variant_dtor(Call(v), d))

EmplaceType ==
  \E d \in Slots, T \in Alts, x \in Vals, throws \in BOOLEAN :
    /\ v[d].alive
    /\ throws => MayThrow(T)
    /\ DoneX("emplace<T>", d, d, T, x, emplace_type(Call(v), d, T, x, throws))

EmplaceIndex ==
  \E d \in Slots, Index \in Alts, x \in Vals, throws \in BOOLEAN :
    /\ v[d].alive
    /\ throws => MayThrow(Index)
    /\ DoneX("emplace<Index>", d, d, Index, x, emplace_index(Call(v), d, Index, x, throws))

AssignValue ==
  \E d \in Slots, T \in Alts, x \in Vals, throws \in BOOLEAN :
    /\ v[d].alive
    /\ throws => MayThrow(T)
    /\ DoneX("operator=(T&&)", d, d, T, x, assign_value(Call(v), d, T, x, throws))

AssignCopy ==
  \E d \in Slots, s \in Slots, u \in Vals :
    /\ v[d].alive
    /\ v[s].alive
    /\ Done("operator=(const variant&)", d, s, 0, assign_copy(Call(v), d, s, u))

AssignMove ==
  \E d \in Slots, s \in Slots, u \in Vals :
    /\ v[d].alive
    /\ v[s].alive
    /\ Done("operator=(variant&&)", d, s, 0, assign_move(Call(v), d, s, u))

Swap ==
  \E d \in Slots, s \in Slots, u \in Vals :
    /\ v[d].alive
    /\ v[s].alive
    /\ Done("swap", d, s, 0, swap(Call(v), d, s, u))

EtlSwap ==
  \E d \in Slots, s \in Slots, u \in Vals :
    /\ v[d].alive
    /\ v[s].alive
    /\ Done("etl::swap", d, s, 0, etl_swap(Call(v), d, s, u))

GetIndex ==
  \E d \in Slots, Index \in Alts, cat \in Overloads :
    /\ v[d].alive
    /\ Answer("get<Index>", d, Index, cat, <<>>, get_index(Call(v), d, Index, cat))

GetType ==
  \E d \in Slots, T \in Alts, cat \in Overloads :
    /\ v[d].alive
    /\ Answer("get<T>", d, T, cat, <<>>, get_type(Call(v), d, T, cat))

Accept ==
  \E d \in Slots, is_visitor \in BOOLEAN, const \in BOOLEAN :
    /\ v[d].alive
    /\ Answer("accept", d, 0, IF const THEN "const_lvalue" ELSE "lvalue", <<>>,
              accept(Call(v), d, is_visitor, const))

AcceptVisitor ==
  \E d \in Slots, const \in BOOLEAN :
    /\ v[d].alive
    /\ Answer("accept_visitor", d, 0, IF const THEN "const_lvalue" ELSE "lvalue", <<>>,
              accept_visitor(Call(v), d, const))

AcceptFunctor ==
  \E d \in Slots, const \in BOOLEAN :
    /\ v[d].alive
    /\ Answer("accept_functor", d, 0, IF const THEN "const_lvalue" ELSE "lvalue", <<>>,
              accept_functor(Call(v), d, const))

Visit ==
  \E vs \in VisitArgs, cat \in Overloads :
    /\ \A k \in DOMAIN vs : v[vs[k]].alive
    /\ Answer("visit", vs[1], 0, cat, vs, visit(Call(v), vs, cat))

IsType ==
  \E d \in Slots, T \in TypeNames :
    /\ v[d].alive
    /\ Answer("is_type<T>", d, T, "const_lvalue", <<>>, is_type(Call(v), d, T))

IsSameType ==
  \E d \in Slots, other \in Slots :
    /\ v[d].alive
    /\ v[other].alive
    /\ Answer2("is_same_type", d, other, is_same_type(Call(v), d, other))

HoldsAlternativeType ==
  \E d \in Slots, T \in TypeNames :
    /\ v[d].alive
    /\ Answer("holds_alternative<T>", d, T, "const_lvalue", <<>>,
              holds_alternative_type(Call(v), d, T))

HoldsAlternativeIndex ==
  \E d \in Slots, Index \in IndexNames :
    /\ v[d].alive
    /\ Answer("holds_alternative<Index>", d, Index, "const_lvalue", <<>>,
              holds_alternative_index(Call(v), d, Index))

HoldsAlternativeRuntime ==
  \E d \in Slots, i \in IndexNames :
    /\ v[d].alive
    /\ Answer("holds_alternative(index)", d, i, "const_lvalue", <<>>,
              holds_alternative_runtime(Call(v), i, d))

GetIfIndex ==
  \E pv \in Slots \cup {nullptr}, Index \in Alts, const \in BOOLEAN :
    /\ pv # nullptr => v[pv].alive
    /\ Answer("get_if<Index>", pv, Index, IF const THEN "const_lvalue" ELSE "lvalue",
              <<>>, get_if_index(Call(v), pv, Index, const))

GetIfType ==
  \E pv \in Slots \cup {nullptr}, T \in Alts, const \in BOOLEAN :
    /\ pv # nullptr => v[pv].alive
    /\ Answer("get_if<T>", pv, T, IF const THEN "const_lvalue" ELSE "lvalue",
              <<>>, get_if_type(Call(v), pv, T, const))

\* lhs OP rhs for the six comparison operators.  The values ul and ur are
\* recorded with the call (last.calls) only through what they made it return.
Compare ==
  \E name \in CmpOps, lhs \in Slots, rhs \in Slots, ul \in Vals, ur \in Vals :
    /\ v[lhs].alive
    /\ v[rhs].alive
    /\ Answer2(name, lhs, rhs, compare(name, Call(v), lhs, rhs, ul, ur))

\* lhs <=> rhs
Spaceship ==
  \E lhs \in Slots, rhs \in Slots, ul \in Vals, ur \in Vals :
    /\ v[lhs].alive
    /\ v[rhs].alive
    /\ Answer2("operator<=>", lhs, rhs, operator_spaceship(Call(v), lhs, rhs, ul, ur))

Return ==
  /\ last.op # "none"
  /\ ~last.fault
  /\ types' = types
  /\ UNCHANGED <<text, out>>
  /\ v' = v
  /\ last' = Idle

Next ==
  \/ Return
  \/ DefaultConstruct
  \/ ValueConstruct
  \/ InPlaceTypeConstruct
  \/ InPlaceIndexConstruct
  \/ CopyConstruct
  \/ MoveConstruct
  \/ Destruct
  \/ EmplaceType
  \/ EmplaceIndex
  \/ AssignValue
  \/ AssignCopy
  \/ AssignMove
  \/ Swap
  \/ EtlSwap
  \/ GetIndex
  \/ GetType
  \/ Accept
  \/ AcceptVisitor
  \/ AcceptFunctor
  \/ Visit
  \/ Compare
  \/ Spaceship
  \/ GetIfIndex
  \/ GetIfType
  \/ IsType
  \/ IsSameType
  \/ HoldsAlternativeType
  \/ HoldsAlternativeIndex
  \/ HoldsAlternativeRuntime

Spec == Init /\ [][Next]_vars

\* The same program instantiated with regular alternatives.
InitRegular ==
  /\ types = RegularTypes
  /\ v = [n \in {Temp} \cup Slots |-> NoVariant]
  /\ last = Idle
  /\ text = NullString
  /\ out = NoOut

SpecRegular == InitRegular /\ [][Next]_vars

\* The comparison operators are functions of their two operands.  Three
\* variant objects of the regular instantiation exist, each in any of the
\* states such a variant can be in: holding a value of an alternative, or
\* valueless, with no value in its storage or with the value that an
\* assignment from a valueless variant left in a default-constructed one.
Objects == {Temp} \cup Slots

VariantValues ==
  {[alive |-> TRUE, type_id |-> i, operation |-> i, live |-> TRUE, alt |-> i, val |-> x] :
     i \in Alts, x \in Vals}
  \cup
  {[alive |-> TRUE, type_id |-> variant_npos, operation |-> 0, live |-> TRUE, alt |-> 0,
    val |-> default_construct_in_place(0)]}
  \cup
  {[alive |-> TRUE, type_id |-> variant_npos, operation |-> NullOp, live |-> FALSE,
    alt |-> 0, val |-> 0]}

InitOrder ==
  /\ types = RegularTypes
  /\ v \in [Objects -> VariantValues]
  /\ last = Idle
  /\ text = NullString
  /\ out = NoOut

CompareAny ==
  \E name \in CmpOps, lhs \in Objects, rhs \in Objects, ul \in Vals, ur \in Vals :
    /\ Answer2(name, lhs, rhs, compare(name, Call(v), lhs, rhs, ul, ur))

SpaceshipAny ==
  \E lhs \in Objects, rhs \in Objects, ul \in Vals, ur \in Vals :
    /\ Answer2("operator<=>", lhs, rhs, operator_spaceship(Call(v), lhs, rhs, ul, ur))

NextOrder ==
  \/ CompareAny
  \/ SpaceshipAny
  \/ Return

SpecOrder == InitOrder /\ [][NextOrder]_vars

\* The string utilities are functions of their arguments: the string is
\* any string of at most MaxLen characters, or the null pointer, and each
\* call is made with any of its other arguments.
Texts == {NullString} \cup {String(s) : s \in UNION {[1 .. k -> Chars] : k \in 0 .. MaxLen}}

InitStrings ==
  /\ types = RegularTypes
  /\ v = [n \in {Temp} \cup Slots |-> NoVariant]
  /\ last = Idle
  /\ text \in Texts
  /\ out = NoOut

GetTokenList ==
  \E ignore_empty_tokens \in BOOLEAN, max_size \in 0 .. MaxTokens,
     max_n_tokens \in (0 .. MaxTokens) \cup {size_t_max} :
    LET r == get_token_list(text, max_size, Delimiters, ignore_empty_tokens, max_n_tokens)
    IN  /\ out' = [NoOut EXCEPT !.op = "get_token_list", !.ignore = ignore_empty_tokens,
                                 !.max_n = max_n_tokens, !.max_size = max_size,
                                 !.output = r.output, !.result = r.result]
        /\ UNCHANGED <<types, v, last, text>>

StrNCopy ==
  \E n \in 0 .. MaxLen + 1, dst_null \in BOOLEAN :
    LET r == str_n_copy(text, n, dst_null)
    IN  /\ out' = [NoOut EXCEPT !.op = "str_n_copy", !.n = n, !.dst_null = dst_null,
                                 !.count = r.count, !.truncated = r.truncated,
                                 !.terminated = r.terminated, !.writes = r.writes,
                                 !.read = r.read]
        /\ UNCHANGED <<types, v, last, text>>

\* One call of get_token in the caller's loop
\*   token = get_token(input, delimiters, token, ignore_empty_tokens)
\* which starts with an empty optional and goes on while a token is returned;
\* `tokens` collects the views returned.
GetToken ==
  \E ignore_empty_tokens \in BOOLEAN :
    LET goes_on == out.op = "get_token" /\ out.token.has
        prev    == IF goes_on THEN out ELSE [NoOut EXCEPT !.op = "get_token",
                                                          !.ignore = ignore_empty_tokens]
        token   == get_token(text, Delimiters, prev.token, prev.ignore)
    IN  /\ goes_on => ignore_empty_tokens = out.ignore
        /\ Len(prev.tokens) <= MaxLen + 2
        /\ out' = [prev EXCEPT !.token = token,
                               !.tokens = IF token.has THEN Append(@, token.view) ELSE @]
        /\ UNCHANGED <<types, v, last, text>>

NextStrings ==
  \/ GetTokenList
  \/ StrNCopy
  \/ GetToken

SpecStrings == InitStrings /\ [][NextStrings]_vars

\* ----------------------------------------------------------------- claims
\* The variant a call was made on, and the argument variant, before the call.
PreD == last.pre[last.d]
PreS == last.pre[last.s]

Events == {last.log[j] : j \in DOMAIN last.log}

AssignOps  == {"operator=(const variant&)", "operator=(variant&&)"}
EmplaceOps == {"emplace<T>", "emplace<Index>"}
ReplaceOps == AssignOps \cup EmplaceOps \cup {"operator=(T&&)"}
GetOps     == {"get<Index>", "get<T>"}
AcceptOps  == {"accept", "accept_visitor", "accept_functor"}

\* Tag, storage and operation binding of a variant agree.
Consistent(vr) ==
  /\ vr.type_id = variant_npos => ~vr.live
  /\ vr.type_id # variant_npos =>
       /\ vr.type_id \in Alts
       /\ vr.live
       /\ vr.alt = vr.type_id
       /\ vr.operation = vr.type_id

\* C1: in every reachable state every variant is consistent: a valueless
\* variant holds no alive value, a variant with index i holds an alive value of
\* alternative i and is bound to the handler of alternative i.
C1_TagStorageBindingConsistent ==
  \A d \in Slots : v[d].alive => Consistent(v[d])

\* C2: every value constructed in a variant's storage is destroyed exactly
\* once: no variant that holds a value by its tag has Destroy run on storage
\* whose value is gone (destroyed twice), no value is constructed over an alive
\* one and none is alive in the storage when the variant's lifetime has ended
\* (leaked); and the destructor of a valueless variant invokes no Destroy.
C2_DestroyedExactlyOnce ==
  /\ \A e \in Events : (e.k = "Destroy" /\ e.tag # variant_npos) => e.ok
  /\ \A e \in Events : e.built => ~e.over
  /\ ~last.leak
  /\ (last.op = "~variant()" /\ PreD.type_id = variant_npos) => last.log = <<>>

\* C3: no call invokes the Destroy handler on a variant whose tag is the
\* sentinel.
C3_NoDestroyOnValueless ==
  \A e \in Events : e.k = "Destroy" => e.tag # variant_npos

\* C4: in value assignment, emplace, copy assignment and move assignment the
\* Destroy of the old value comes before the construction of the new one, and
\* no value is constructed in storage that holds an alive one.
C4_DestroyBeforeConstruct ==
  last.op \in ReplaceOps =>
    \A j \in DOMAIN last.log :
      last.log[j].built =>
        /\ ~last.log[j].over
        /\ \E i \in 1 .. j - 1 :
             last.log[i].k = "Destroy" /\ last.log[i].slot = last.log[j].slot

\* C4 witness: an emplace on a variant with an alive value destroyed it and
\* then constructed the new value.
C4_Witness ==
  /\ last.op = "emplace<Index>"
  /\ PreD.live
  /\ Len(last.log) = 2
  /\ last.log[1].k = "Destroy" /\ last.log[1].ok
  /\ last.log[2].k = "Construct" /\ last.log[2].ok

\* C5: copy or move assignment to a variant holding an alive value from a
\* different, valueless variant leaves the destination valueless and has
\* destroyed its previous value.
C5_AssignFromValuelessDestroys ==
  (/\ last.op \in AssignOps
   /\ last.d # last.s
   /\ PreD.live
   /\ PreS.type_id = variant_npos)
  => /\ v[last.d].type_id = variant_npos
     /\ \E e \in Events : e.k = "Destroy" /\ e.slot = last.d /\ e.ok

\* C6: every overload of get<Index> and get<T> returns the reference to the
\* held value when the requested alternative is the current tag, and signals
\* variant_incorrect_type_exception, returning no reference, when it is not.
C6_GetChecksTag ==
  last.op \in GetOps =>
    IF last.i = PreD.type_id
      THEN last.err = "none" /\ last.ref = Ref(last.d, last.i)
      ELSE last.err = "variant_incorrect_type_exception" /\ last.ref = NoRef

\* C7: accept, accept_visitor and accept_functor on a valueless variant
\* signal bad access and call no visitor method.
C7_AcceptValuelessSignals ==
  (last.op \in AcceptOps /\ PreD.type_id = variant_npos)
  => last.err = "bad_variant_access" /\ last.calls = <<>>

\* C8: etl::visit signals bad_variant_access and does not call f when any of
\* its variants, at any position, is valueless.
C8_VisitValuelessSignals ==
  (/\ last.op = "visit"
   /\ \E k \in DOMAIN last.vs : last.pre[last.vs[k]].type_id = variant_npos)
  => last.err = "bad_variant_access" /\ last.calls = <<>>

\* C8 witness: a visit of two variants, the first with a value and the second
\* valueless, signalled bad_variant_access.
C8_Witness ==
  /\ last.op = "visit"
  /\ Len(last.vs) = 2
  /\ last.pre[last.vs[1]].type_id # variant_npos
  /\ last.pre[last.vs[2]].type_id = variant_npos
  /\ last.err = "bad_variant_access"

\* C9: get<Index> and get<T> on a valueless variant signal bad_variant_access
\* for every requested alternative.
C9_GetValuelessBadAccess ==
  (last.op \in GetOps /\ PreD.type_id = variant_npos)
  => last.err = "bad_variant_access"

\* C9 (amended): get<Index> and get<T> on a valueless variant never signal
\* bad_variant_access; the lvalue, const lvalue and const rvalue overloads
\* signal variant_incorrect_type_exception for every requested alternative and
\* return no reference.
C9_GetValuelessIncorrectType ==
  (last.op \in GetOps /\ PreD.type_id = variant_npos)
  => /\ last.err # "bad_variant_access"
     /\ last.cat # "rvalue" =>
          last.err = "variant_incorrect_type_exception" /\ last.ref = NoRef

\* C9 witness: get<T> through the lvalue overload on a valueless variant
\* signalled variant_incorrect_type_exception.
C9_Witness ==
  /\ last.op = "get<T>"
  /\ last.cat = "lvalue"
  /\ PreD.alive /\ PreD.type_id = variant_npos
  /\ last.err = "variant_incorrect_type_exception"

ConstructOps == {"variant(T&&)", "variant(in_place_type)", "variant(in_place_index)"}

\* The variant holds the value x of alternative i: tag, storage and binding.
Holds(vr, i, x) ==
  /\ vr.alive
  /\ vr.type_id = i
  /\ vr.live /\ vr.alt = i /\ vr.val = x
  /\ vr.operation = i

\* get<i> on the variant in slot d succeeds through every overload and
\* returns the reference to its storage as alternative i.
GetReturns(objs, d, i) ==
  \A cat \in Overloads :
    LET g == get_index(Call(objs), d, i, cat)
    IN  g.err = "none" /\ g.ref = Ref(d, i)

\* C11: a variant constructed from a value of alternative i, in place by type
\* or in place by index i has index() = i, get<i> returns the constructed
\* value, and it is bound to the handler of alternative i.
C11_ConstructHoldsAlternative ==
  last.op \in ConstructOps =>
    /\ index(v[last.d]) = last.i
    /\ Holds(v[last.d], last.i, last.x)
    /\ GetReturns(v, last.d, last.i)

\* C11 witness: a variant was constructed in place by index with the last
\* alternative and a value other than the default one.
C11_Witness ==
  /\ last.op = "variant(in_place_index)"
  /\ last.i = NumAlts - 1
  /\ last.x = MaxVal
  /\ Holds(v[last.d], NumAlts - 1, MaxVal)

\* C12: the copy of a valueless variant is valueless; the copy of a variant
\* with index i has index i and holds an alive value of alternative i equal to
\* the source's, and the source keeps its tag, binding and value.
C12_CopyConstructRoundTrip ==
  last.op = "variant(const variant&)" =>
    IF PreS.type_id = variant_npos
      THEN valueless_by_exception(v[last.d])
      ELSE /\ index(v[last.d]) = PreS.type_id
           /\ v[last.d].live
           /\ v[last.d].alt = PreS.type_id
           /\ PreS.live /\ PreS.alt = PreS.type_id
           /\ v[last.d].val = PreS.val
           /\ v[last.s] = PreS

\* C13: move construction of B from a different variant A with index i gives
\* B index i, an alive value of alternative i equal to the one A held and A's
\* binding; the move invokes no Destroy, A keeps its tag and its value stays
\* alive; and the destructor of a variant in the state the move leaves A in
\* (tag i over an alive value) destroys that value with exactly one Destroy.
C13_MoveConstructFromOther ==
  /\ (/\ last.op = "variant(variant&&)"
      /\ last.d # last.s
      /\ PreS.type_id # variant_npos)
     => /\ index(v[last.d]) = PreS.type_id
        /\ v[last.d].live
        /\ v[last.d].alt = PreS.type_id
        /\ PreS.live /\ PreS.alt = PreS.type_id
        /\ v[last.d].val = PreS.val
        /\ v[last.d].operation = PreS.operation
        /\ \A e \in Events : e.k # "Destroy"
        /\ v[last.s].type_id = PreS.type_id
        /\ v[last.s].live /\ v[last.s].alt = PreS.type_id
  /\ (/\ last.op = "~variant()"
      /\ PreD.type_id # variant_npos)
     => /\ Len(last.log) = 1
        /\ last.log[1].k = "Destroy" /\ last.log[1].ok
        /\ ~last.leak

\* C14: move construction of a variant from itself leaves it valueless and
\* invokes no Move, Copy or Destroy handler.
C14_SelfMoveConstructValueless ==
  (last.op = "variant(variant&&)" /\ last.d = last.s)
  => /\ index(v[last.d]) = variant_npos
     /\ valueless_by_exception(v[last.d])
     /\ last.log = <<>>

\* C14 witness: a variant has been move-constructed from itself.
C14_Witness ==
  /\ last.op = "variant(variant&&)"
  /\ last.d = last.s
  /\ ~PreD.alive
  /\ v[last.d].alive
  /\ v[last.d].type_id = variant_npos

\* C15: copy or move assignment of a variant to itself changes nothing: tag,
\* binding and held value are as before and no handler is invoked.
C15_SelfAssignNoOp ==
  (last.op \in AssignOps /\ last.d = last.s)
  => /\ v = last.pre
     /\ v[last.d].type_id = PreD.type_id
     /\ v[last.d].operation = PreD.operation
     /\ v[last.d].live = PreD.live /\ v[last.d].val = PreD.val
     /\ last.log = <<>>

\* C15 witness: a variant holding a value other than the default one has been
\* copy-assigned to itself.
C15_Witness ==
  /\ last.op = "operator=(const variant&)"
  /\ last.d = last.s
  /\ PreD.type_id # variant_npos /\ PreD.live /\ PreD.val = MaxVal
  /\ v[last.d] = PreD

\* C16: copy (move) assignment to a variant D with a tag from a different
\* variant S with a tag makes exactly two handler calls: a Destroy that
\* destroys D's value through D's binding, then a Copy (Move) through S's
\* binding that constructs D's value from S's.  Afterwards D has S's binding
\* and tag and holds a value equal to the one S held; after a copy S is
\* unchanged.
C16_AssignFromOther ==
  (/\ last.op \in AssignOps
   /\ last.d # last.s
   /\ PreD.type_id # variant_npos
   /\ PreS.type_id # variant_npos)
  => /\ Len(last.log) = 2
     /\ last.log[1].k = "Destroy" /\ last.log[1].slot = last.d
     /\ last.log[1].h = PreD.operation /\ last.log[1].ok
     /\ last.log[2].k = (IF last.op = "operator=(const variant&)" THEN "Copy" ELSE "Move")
     /\ last.log[2].slot = last.d
     /\ last.log[2].h = PreS.operation /\ last.log[2].ok
     /\ v[last.d].operation = PreS.operation
     /\ index(v[last.d]) = PreS.type_id
     /\ v[last.d].live /\ v[last.d].alt = PreS.type_id /\ v[last.d].val = PreS.val
     /\ last.op = "operator=(const variant&)" => v[last.s] = PreS

\* C17: an emplace<T> or emplace<Index> that returns, called on a variant with
\* a tag, makes exactly two calls: a Destroy that destroys the prior value and
\* the construction of the new one, also when the target alternative is the
\* current one.  Afterwards index() is the target index, the binding is the
\* target's handler, and the reference returned is to the new value in the
\* variant's storage.
C17_EmplaceDestroysThenConstructs ==
  (/\ last.op \in EmplaceOps
   /\ last.err = "none"
   /\ PreD.type_id # variant_npos)
  => /\ Len(last.log) = 2
     /\ last.log[1].k = "Destroy" /\ last.log[1].slot = last.d /\ last.log[1].ok
     /\ last.log[2].k = "Construct" /\ last.log[2].slot = last.d /\ last.log[2].ok
     /\ last.log[2].h = last.i
     /\ index(v[last.d]) = last.i
     /\ Holds(v[last.d], last.i, last.x)
     /\ last.ref = Ref(last.d, last.i)

\* C18: an assignment of a value x of alternative T that returns, made to a
\* variant with a tag (whatever alternative it held), destroys the value held
\* with exactly one Destroy and leaves the variant with index() = index of T,
\* get<T> returning x, and the binding of T.
C18_AssignValue ==
  (/\ last.op = "operator=(T&&)"
   /\ last.err = "none"
   /\ PreD.type_id # variant_npos)
  => /\ Cardinality({j \in DOMAIN last.log : last.log[j].k = "Destroy"}) = 1
     /\ \A e \in Events : e.k = "Destroy" => e.slot = last.d /\ e.ok
     /\ index(v[last.d]) = index_of_type(last.i)
     /\ Holds(v[last.d], index_of_type(last.i), last.x)
     /\ GetReturns(v, last.d, index_of_type(last.i))

SwapOps == {"swap", "etl::swap"}

\* The variant has index i and holds an alive value x of alternative i.
HoldsValue(vr, i, x) ==
  vr.type_id = i /\ vr.live /\ vr.alt = i /\ vr.val = x

\* C19: after a member or free swap of two distinct variants a and b that
\* both have a tag, a has b's prior index and value and b has a's; a second
\* swap of the two restores the original indices and values.
C19_SwapExchanges ==
  (/\ last.op \in SwapOps
   /\ last.d # last.s
   /\ PreD.type_id # variant_npos
   /\ PreS.type_id # variant_npos)
  => /\ PreD.live /\ PreD.alt = PreD.type_id
     /\ PreS.live /\ PreS.alt = PreS.type_id
     /\ HoldsValue(v[last.d], PreS.type_id, PreS.val)
     /\ HoldsValue(v[last.s], PreD.type_id, PreD.val)
     /\ \A u \in Vals :
          LET again == swap(Call(v), last.d, last.s, u).v
          IN  /\ HoldsValue(again[last.d], PreD.type_id, PreD.val)
              /\ HoldsValue(again[last.s], PreS.type_id, PreS.val)

\* C20: accept, accept_visitor, accept_functor and etl::visit(f, v) on one
\* variant with a tag make exactly one call, to the branch of alternative
\* index(), passing the reference to the alive value the variant holds, and
\* signal nothing; etl::visit returns the result of that call.
C20_DispatchOneCall ==
  (/\ last.op \in AcceptOps \cup {"visit"}
   /\ Len(last.vs) <= 1
   /\ PreD.type_id # variant_npos)
  => /\ last.err = "none"
     /\ last.calls = << <<Ref(last.d, PreD.type_id)>> >>
     /\ PreD.live /\ PreD.alt = PreD.type_id
     /\ last.op = "visit" => last.ret = <<last.calls[1]>>

\* C21: etl::visit(f, v1, ..., vk) on variants that all have a tag signals
\* nothing and calls f exactly once, with the references get<t1>(v1), ...,
\* get<tk>(vk) in the order the variants were passed, ti being the tag of vi;
\* it returns the result of that call.
C21_VisitOneCallInOrder ==
  (/\ last.op = "visit"
   /\ \A k \in DOMAIN last.vs : last.pre[last.vs[k]].type_id # variant_npos)
  => /\ last.err = "none"
     /\ last.calls =
          << [k \in DOMAIN last.vs |->
                Ref(last.vs[k], last.pre[last.vs[k]].type_id)] >>
     /\ \A k \in DOMAIN last.vs :
          LET g == get_index(Call(last.pre), last.vs[k],
                             last.pre[last.vs[k]].type_id, last.cat)
          IN  g.err = "none" /\ last.calls[1][k] = g.ref
     /\ last.ret = <<last.calls[1]>>

\* C21 witness: a visit of two different variants with different tags, the
\* first one's the larger, called f once.
C21_Witness ==
  /\ last.op = "visit"
  /\ Len(last.vs) = 2
  /\ last.vs[1] # last.vs[2]
  /\ last.pre[last.vs[1]].type_id = NumAlts - 1
  /\ last.pre[last.vs[2]].type_id = 0
  /\ Len(last.calls) = 1

\* The variant holds a value: its tag names an alternative and a value of
\* that alternative is alive in its storage.
HoldsAValue(vr) ==
  vr.type_id # variant_npos /\ vr.live /\ vr.alt = vr.type_id

\* C22: lhs < rhs signals nothing and is: false when both are valueless; true
\* when only lhs is; false when only rhs is; (lhs tag < rhs tag) when the tags
\* differ; and the held values' own < when both hold values of the same
\* alternative.
C22_LessThan ==
  last.op = "operator<" =>
    /\ last.err = "none"
    /\ IF PreD.type_id = variant_npos /\ PreS.type_id = variant_npos
         THEN last.b = FALSE
       ELSE IF PreD.type_id = variant_npos
         THEN last.b = TRUE
       ELSE IF PreS.type_id = variant_npos
         THEN last.b = FALSE
       ELSE IF PreD.type_id # PreS.type_id
         THEN last.b = (PreD.type_id < PreS.type_id)
       ELSE (HoldsAValue(PreD) /\ HoldsAValue(PreS))
              => last.b = (PreD.val < PreS.val)

\* C22 witness: two different variants holding values of the same alternative,
\* the left one's the smaller, compared less.
C22_Witness ==
  /\ last.op = "operator<"
  /\ last.d # last.s
  /\ HoldsAValue(PreD) /\ HoldsAValue(PreS)
  /\ PreD.type_id = PreS.type_id
  /\ PreD.val < PreS.val
  /\ last.b

\* C23: lhs == rhs signals nothing and is: true when both are valueless; false
\* when exactly one is; false when the tags differ; and the held values' own
\* == when both hold values of the same alternative.  lhs != rhs is the
\* negation in each of these cases.
C23_Equality ==
  last.op \in {"operator==", "operator!="} =>
    LET eq == IF last.op = "operator==" THEN last.b ELSE ~last.b
    IN  /\ last.err = "none"
        /\ IF PreD.type_id = variant_npos /\ PreS.type_id = variant_npos
             THEN eq = TRUE
           ELSE IF PreD.type_id = variant_npos \/ PreS.type_id = variant_npos
             THEN eq = FALSE
           ELSE IF PreD.type_id # PreS.type_id
             THEN eq = FALSE
           ELSE (HoldsAValue(PreD) /\ HoldsAValue(PreS))
                  => eq = (PreD.val = PreS.val)

\* C23 witness: two different variants holding different values of the same
\* alternative compared unequal with operator!=.
C23_Witness ==
  /\ last.op = "operator!="
  /\ last.d # last.s
  /\ HoldsAValue(PreD) /\ HoldsAValue(PreS)
  /\ PreD.type_id = PreS.type_id
  /\ PreD.val # PreS.val
  /\ last.b

GetIfOps == {"get_if<Index>", "get_if<T>"}

\* C24: get_if<Index> and get_if<T> signal nothing.  They return the null
\* pointer when the pointer argument is null, when the variant is valueless
\* and when its tag is not the requested alternative; otherwise they return
\* the address of the value that get returns for the same variant and
\* alternative.
C24_GetIfNeverSignals ==
  last.op \in GetIfOps =>
    /\ last.err = "none"
    /\ IF last.d = nullptr
         THEN last.ref = NoRef
       ELSE IF PreD.type_id = variant_npos \/ PreD.type_id # last.i
         THEN last.ref = NoRef
       ELSE LET g == get_index(Call(last.pre), last.d, last.i, last.cat)
            IN  /\ g.err = "none"
                /\ last.ref = g.ref
                /\ last.ref = Ref(last.d, last.i)

\* C24 witness: get_if<T> on a variant whose tag is T, not the first
\* alternative, returned the address of its value.
C24_Witness ==
  /\ last.op = "get_if<T>"
  /\ last.d # nullptr
  /\ last.i = NumAlts - 1
  /\ PreD.type_id = last.i
  /\ last.ref = Ref(last.d, last.i)

\* C25: is_type<T>() signals nothing and is true exactly when T is an
\* alternative and the tag is the index of T: it is false for a type that is
\* no alternative, whatever the state, and false for every alternative when
\* the variant is valueless.
C25_IsType ==
  last.op = "is_type<T>" =>
    /\ last.err = "none"
    /\ last.b = (last.i \in Alts /\ PreD.type_id = index_of_type(last.i))
    /\ last.i \notin Alts => ~last.b
    /\ PreD.type_id = variant_npos => ~last.b

\* C25 witness: is_type<T>() for a type that is no alternative, asked of a
\* valueless variant, was false.
C25_Witness ==
  /\ last.op = "is_type<T>"
  /\ last.i = NotAlternative
  /\ PreD.alive /\ PreD.type_id = variant_npos
  /\ ~last.b

\* The variant object exists and is valueless.
IsValueless(vr) == vr.alive /\ vr.type_id = variant_npos

FromVariantOps ==
  {"variant(const variant&)", "variant(variant&&)"} \cup AssignOps \cup SwapOps

\* C26: whenever a call leaves a variant valueless that was not valueless
\* before it, the call is the move construction of a variant from itself, or
\* a copy/move construction, copy/move assignment or swap one of whose
\* operands was valueless before the call.  No default, value or in-place
\* construction, value assignment or emplace, and no copy, move or swap of
\* variants that all have a tag, makes a variant valueless.
C26_ValuelessOrigins ==
  \A n \in Slots :
    (IsValueless(v[n]) /\ ~IsValueless(last.pre[n]))
    => \/ last.op = "variant(variant&&)" /\ last.d = last.s
       \/ /\ last.op \in FromVariantOps
          /\ IsValueless(PreD) \/ IsValueless(PreS)

\* C26 witness: a copy construction from a valueless variant has made a
\* second variant valueless.
C26_Witness ==
  /\ last.op = "variant(const variant&)"
  /\ last.d # last.s
  /\ IsValueless(PreS)
  /\ ~PreD.alive
  /\ IsValueless(v[last.d])

RECURSIVE AllTokens(_, _, _, _)
AllTokens(input, ignore_empty_tokens, token, acc) ==
  LET t == get_token(input, Delimiters, token, ignore_empty_tokens)
  IN  IF t.has
        THEN AllTokens(input, ignore_empty_tokens, t, Append(acc, t.view))
        ELSE acc

\* C28: get_token_list returns true if and only if the output list holds
\* every token of the input: true also when the input has exactly
\* max_n_tokens or max_size() tokens, false when tokens are left out.
C28_TokenListResult ==
  out.op = "get_token_list" =>
    (out.result <=> out.output = AllTokens(text, out.ignore, None, <<>>))

\* The smaller of two numbers.
Min(a, c) == IF a < c THEN a ELSE c

\* C29: str_n_copy(src, n, dst) with a null src or dst writes nothing and
\* returns {0, false, false}.  Otherwise it copies the first count =
\* min(n, length of src) characters of src to dst[0 .. count - 1], writes the
\* terminating null to dst[count] exactly when count < n, writes nowhere at or
\* beyond dst[n], reads src no further than its terminating null, and returns
\* count with terminated = (count < n) and truncated = (count = n and src[n]
\* is not the null), never both.
C29_StrNCopy ==
  out.op = "str_n_copy" =>
    IF text.null \/ out.dst_null
      THEN /\ out.count = 0 /\ ~out.truncated /\ ~out.terminated
           /\ out.writes = <<>>
      ELSE LET count  == Min(out.n, Len(text.s))
               copied == [j \in 1 .. count |-> <<j - 1, text.s[j]>>]
           IN  /\ out.count = count
               /\ out.writes = IF count < out.n THEN Append(copied, <<count, 0>>) ELSE copied
               /\ \A j \in DOMAIN out.writes : out.writes[j][1] < out.n
               /\ out.read <= Len(text.s)
               /\ out.terminated = (count < out.n)
               /\ out.truncated = (count = out.n /\ CharAt(text, out.n) # 0)
               /\ ~(out.truncated /\ out.terminated)

\* C29 witness: a string longer than n, n not 0, was copied truncated.
C29_Witness ==
  /\ out.op = "str_n_copy"
  /\ ~text.null /\ ~out.dst_null
  /\ 0 < out.n /\ out.n < Len(text.s)
  /\ out.count = out.n
  /\ out.truncated /\ ~out.terminated

\* C30: a member or free swap of two distinct variants that both have a tag
\* makes six handler calls and no other: the Move that constructs the
\* temporary from self, the Destroy of self's moved-from value, the Move from
\* other into self, the Destroy of other's moved-from value, the Move from the
\* temporary into other, the Destroy of the temporary's value.  Each Move
\* constructs a value and each Destroy destroys one, no Copy is invoked, and
\* afterwards each of the two variants holds one alive value and the
\* temporary none.
C30_SwapSequence ==
  (/\ last.op \in SwapOps
   /\ last.d # last.s
   /\ PreD.type_id # variant_npos
   /\ PreS.type_id # variant_npos)
  => /\ Len(last.log) = 6
     /\ [j \in 1 .. 6 |-> <<last.log[j].k, last.log[j].slot>>] =
          << <<"Move", Temp>>, <<"Destroy", last.d>>, <<"Move", last.d>>,
             <<"Destroy", last.s>>, <<"Move", last.s>>, <<"Destroy", Temp>> >>
     /\ \A j \in 1 .. 6 : last.log[j].ok
     /\ \A j \in {1, 3, 5} : last.log[j].built /\ ~last.log[j].over
     /\ HoldsAValue(v[last.d])
     /\ HoldsAValue(v[last.s])
     /\ ~v[Temp].alive /\ ~v[Temp].live
     /\ ~last.leak

C32_NoSilentNoOp ==
  last.op \in {"variant(const variant&)", "variant(variant&&)"} \cup AssignOps =>
    /\ \A e \in Events : (e.k \in {"Copy", "Move"} /\ e.h \in Alts) => e.built
    /\ (Events # {} /\ v[last.d].type_id \in Alts) => v[last.d].live

\* C33: when the constructor of the new alternative throws inside emplace or
\* value assignment, after the old value has been destroyed, the variant is
\* left valueless: its index() is variant_npos and its storage holds no value.
C33_ThrowLeavesValueless ==
  (last.op \in EmplaceOps \cup {"operator=(T&&)"} /\ last.err = "constructor_throws") =>
    /\ v[last.d].type_id = variant_npos
    /\ ~v[last.d].live

\* C34: a member or free swap of two distinct consistent variants of which
\* exactly one is valueless exchanges their states: the one that was valueless
\* holds the other's prior index and value, the other is valueless with no
\* value alive in its storage, no Destroy was invoked on storage without an
\* alive value, and no value was constructed over another or left behind.
C34_SwapOneValueless ==
  (/\ last.op \in SwapOps
   /\ last.d # last.s
   /\ Consistent(PreD) /\ Consistent(PreS)
   /\ (PreD.type_id = variant_npos) # (PreS.type_id = variant_npos))
  => LET was  == IF PreD.type_id = variant_npos THEN last.d ELSE last.s
         held == IF PreD.type_id = variant_npos THEN last.s ELSE last.d
     IN  /\ HoldsValue(v[was], last.pre[held].type_id, last.pre[held].val)
         /\ v[held].type_id = variant_npos
         /\ ~v[held].live
         /\ \A e \in Events : e.k = "Destroy" => e.ok
         /\ \A e \in Events : e.built => ~e.over
         /\ ~last.leak
         /\ ~last.fault

\* C35: a member or free swap of a variant with itself, when it has a tag,
\* leaves it with the same tag and one alive value of that alternative in its
\* storage; the value of the temporary is destroyed once, by the one Destroy
\* call made on the temporary, and the temporary is gone.
C35_SelfSwap ==
  (/\ last.op \in SwapOps
   /\ last.d = last.s
   /\ PreD.type_id # variant_npos)
  => /\ v[last.d].type_id = PreD.type_id
     /\ v[last.d].live
     /\ v[last.d].alt = PreD.type_id
     /\ Cardinality({j \in DOMAIN last.log :
                       last.log[j].k = "Destroy" /\ last.log[j].slot = Temp}) = 1
     /\ \A e \in Events : (e.k = "Destroy" /\ e.slot = Temp) => e.ok
     /\ \A e \in Events : e.built => ~e.over
     /\ ~v[Temp].alive /\ ~v[Temp].live
     /\ ~last.leak

\* What the six operators and operator<=> return for operands a and b when
\* reads of storage without a value yield ul and ur.
Lt(a, b, ul, ur) == operator_lt(Call(v), a, b, ul, ur).b
Eq(a, b, ul, ur) == operator_eq(Call(v), a, b, ul, ur).b
Gt(a, b, ul, ur) == operator_gt(Call(v), a, b, ul, ur).b
Le(a, b, ul, ur) == operator_le(Call(v), a, b, ul, ur).b
Ge(a, b, ul, ur) == operator_ge(Call(v), a, b, ul, ur).b
Ne(a, b, ul, ur) == operator_ne(Call(v), a, b, ul, ur).b
Cmp3(a, b, ul, ur) == operator_spaceship(Call(v), a, b, ul, ur).ord

\* C36: for the operands a and b of every comparison made on variants of a
\* regular instantiation, valueless ones included: no comparison of a and b
\* signals an error, exactly one of a < b, a == b, b < a holds, a < b and
\* b < c give a < c for every variant c, and a > b is b < a, a <= b is not
\* b < a, a >= b is not a < b, a != b is not a == b.
C36_TotalOrder ==
  last.op \in CmpOps =>
    LET a == last.d
        b == last.s
    IN  \A ul \in Vals, ur \in Vals :
          /\ \A name \in CmpOps : compare(name, Call(v), a, b, ul, ur).err = "none"
          /\ Cardinality({r \in {"lt", "eq", "gt"} :
                            \/ r = "lt" /\ Lt(a, b, ul, ur)
                            \/ r = "eq" /\ Eq(a, b, ul, ur)
                            \/ r = "gt" /\ Lt(b, a, ur, ul)}) = 1
          /\ \A c \in Objects, uc \in Vals :
               (Lt(a, b, ul, ur) /\ Lt(b, c, ur, uc)) => Lt(a, c, ul, uc)
          /\ Gt(a, b, ul, ur) = Lt(b, a, ur, ul)
          /\ Le(a, b, ul, ur) = ~Lt(b, a, ur, ul)
          /\ Ge(a, b, ul, ur) = ~Lt(a, b, ul, ur)
          /\ Ne(a, b, ul, ur) = ~Eq(a, b, ul, ur)

\* b < c was computed for two variants of one alternative, next to a
\* valueless a that is less than both.
C36_Witness ==
  /\ last.op = "operator<" /\ last.d = 1 /\ last.s = 2 /\ last.b
  /\ v[Temp].type_id = variant_npos
  /\ v[1].type_id = v[2].type_id
  /\ v[1].type_id # variant_npos
  /\ Lt(Temp, 1, 0, 0)

\* C37: for the operands a and b of every operator<=> made on variants of a
\* regular instantiation, valueless ones included, the call signals no
\* error and returns less exactly when a < b, equal exactly when a == b and
\* greater exactly when b < a.
C37_ThreeWayAgrees ==
  last.op = "operator<=>" =>
    /\ last.err = "none"
    /\ last.ord \in {"less", "equal", "greater"}
    /\ \A ul \in Vals, ur \in Vals :
         /\ (last.ord = "less") = Lt(last.d, last.s, ul, ur)
         /\ (last.ord = "equal") = Eq(last.d, last.s, ul, ur)
         /\ (last.ord = "greater") = Lt(last.s, last.d, ur, ul)

C37_Witness ==
  /\ last.op = "operator<=>" /\ last.ord = "greater"
  /\ v[last.d].type_id # variant_npos
  /\ v[last.s].type_id # variant_npos
  /\ v[last.d].type_id > v[last.s].type_id
  /\ \E n \in Objects : v[n].type_id = variant_npos

\* The queries that say whether a variant holds an alternative.
HoldsOps ==
  {"is_type<T>", "holds_alternative<T>", "holds_alternative<Index>",
   "holds_alternative(index)", "get_if<T>", "get_if<Index>"}

\* C38: every query whether variant d holds alternative i answers
\* d.index() = i, and so does each of the other query paths in the same
\* state (get_if answers by returning a pointer that is not null), whatever
\* the storage holds; is_same_type(a, b) answers a.index() = b.index(),
\* which is true for two valueless variants.
C38_QueryPathsAgree ==
  /\ (last.op \in HoldsOps /\ last.i \in Alts /\ last.d # nullptr) =>
       LET d   == last.d
           i   == last.i
           ans == IF last.op \in GetIfOps THEN last.ref # NoRef ELSE last.b
           st  == Call(v)
       IN  /\ last.err = "none"
           /\ ans = (index(v[d]) = i)
           /\ is_type(st, d, i).b = ans
           /\ holds_alternative_type(st, d, i).b = ans
           /\ holds_alternative_index(st, d, i).b = ans
           /\ holds_alternative_runtime(st, i, d).b = ans
           /\ \A const \in BOOLEAN :
                /\ (get_if_type(st, d, i, const).ref # NoRef) = ans
                /\ (get_if_index(st, d, i, const).ref # NoRef) = ans
                /\ get_if_type(st, d, i, const).ref \in {NoRef, Ref(d, i)}
  /\ last.op = "is_same_type" =>
       /\ last.b = (index(v[last.d]) = index(v[last.s]))
       /\ (valueless_by_exception(v[last.d]) /\ valueless_by_exception(v[last.s]))
            => last.b

C38_Witness ==
  /\ last.op = "is_same_type"
  /\ last.d # last.s
  /\ valueless_by_exception(v[last.d])
  /\ valueless_by_exception(v[last.s])
  /\ last.b

\* The character at position p of the input is one of the delimiters.
IsDelimiter(p) == \E pd \in DOMAIN Delimiters : text.s[p + 1] = Delimiters[pd]

\* C39: in a loop that feeds each token returned by get_token back as
\* last_view, at most input.size() + 1 tokens are returned before the empty
\* optional is (a null input returns it at once); each token starts
\* strictly after the one before, past its end (right after the delimiter
\* that ends it when empty tokens are kept), lies inside the input, contains no
\* delimiter and is maximal: it starts at the start of the input or right
\* after a delimiter and ends at the end of the input or right before one;
\* when ignore_empty_tokens is true no token is empty.
C39_GetTokenTerminates ==
  out.op = "get_token" =>
    LET toks == out.tokens
    IN  /\ text.null => (toks = <<>> /\ ~out.token.has)
        /\ Len(toks) <= Len(text.s) + 1
        /\ out.token.has => out.token.view = toks[Len(toks)]
        /\ \A j \in DOMAIN toks :
             /\ ~toks[j].null
             /\ toks[j].pos + toks[j].size <= Len(text.s)
             /\ j > 1 => toks[j].pos > toks[j - 1].pos
             /\ j > 1 => toks[j].pos > toks[j - 1].pos + toks[j - 1].size
             /\ (j > 1 /\ ~out.ignore) =>
                  toks[j].pos = toks[j - 1].pos + toks[j - 1].size + 1
             /\ \A p \in toks[j].pos .. toks[j].pos + toks[j].size - 1 : ~IsDelimiter(p)
             /\ toks[j].pos = 0 \/ IsDelimiter(toks[j].pos - 1)
             /\ toks[j].pos + toks[j].size = Len(text.s)
                  \/ IsDelimiter(toks[j].pos + toks[j].size)
             /\ out.ignore => toks[j].size # 0

\* The loop has ended on an input of delimiters only, after size() + 1 empty
\* tokens.
C39_Witness ==
  /\ out.op = "get_token"
  /\ ~out.token.has
  /\ Len(text.s) >= 2
  /\ Len(out.tokens) = Len(text.s) + 1
====
